---- MODULE Spec2Model ----
(***************************************************************************)
(* Model of the title-holder matching core of WaterRightsAnomalies:        *)
(*   src/DataManager/ManipulateData.py  (text standardisation)             *)
(*   src/DataManager/MetodoLexico.py    (length prefilter, lexical         *)
(*                                       metrics, classifier, char diff)   *)
(*                                                                         *)
(* A Python str is a sequence of characters; a character is a one-element  *)
(* name ("A", " ", "&", ...).  Characters outside ASCII are written by     *)
(* name: "a-acute" is U+00E1, "O-slash" is U+00D8, "o-slash" is U+00F8.    *)
(* A Python value that may be None, a str or something else is a record    *)
(* [tag, s, n]: tag "none", tag "str" with the characters in s, or tag     *)
(* "int" with the number in n.                                             *)
(***************************************************************************)
EXTENDS Integers, Sequences, FiniteSets, TLC

VARIABLES
    \* ---- one MetodoLexico object and the one request made on it ----
    args,               \* <<a, b>> as passed to MetodoLexico(a, b)
    a, b,               \* self.a, self.b
    a_std, b_std,       \* self.a_std, self.b_std: None until standardised
    pc,                 \* where the request is: "idle", "metricas", "reglas",
                        \* "conflictos", "done", "raised"
    jw, ts, cq, jac,    \* locals of score_y_clase
    clase, score,       \* locals of score_y_clase
    ret,                \* what the last call returned (or raised)
    evaluadas,          \* the functions evaluated by the request so far
    normalizaciones,    \* how often normalization_and_soft_standardization has run
    llamadas,           \* how many calls on the object have come back
    \* ---- one ManipulateData._estandarizar_texto request ----
    texto,              \* the value being standardised (input, then each result)
    cfg,                \* the four keyword toggles of the request
    entrada,            \* the value first passed in
    pasadas,            \* results so far: pasadas[k] is the result of pass k
    \* ---- one length gate evaluation on given lengths ----
    lens,               \* <<len_a, len_b>>
    gate,               \* "unset", or what the gate returned: "True", "False"
    \* ---- one request on a column of the data frame ----
    columna,            \* the rows of the column: each None or a str
    cfn,                \* "", or the function called on the column
    salida,             \* what it returned: the new column, or the list
    \* ---- one conflicting_characters request on two given strings ----
    cadenas,            \* <<a, b>>
    dpc,                \* "none", "inicio", "opcodes", "pares", "unicos"
    opcodes,            \* sm.get_opcodes()
    pares,              \* the local list pairs
    unicos              \* the local list uniq, which is returned

ovars == <<args, a, b, a_std, b_std, pc, jw, ts, cq, jac, clase, score, ret, evaluadas,
          normalizaciones, llamadas>>
nvars == <<texto, cfg, entrada, pasadas>>
gvars == <<lens, gate>>
cvars == <<columna, cfn, salida>>
dvars == <<cadenas, dpc, opcodes, pares, unicos>>
vars == <<ovars, nvars, gvars, cvars, dvars>>

----------------------------------------------------------------------------
(* Python values *)

NoneV == [tag |-> "none", s |-> <<>>, n |-> 0]
Str(s) == [tag |-> "str", s |-> s, n |-> 0]
IntV(k) == [tag |-> "int", s |-> <<>>, n |-> k]

IsStr(v) == v.tag = "str"

\* bool(v): None, "" and 0 are falsy
Truthy(v) ==
    CASE v.tag = "none" -> FALSE
      [] v.tag = "str"  -> v.s # <<>>
      [] OTHER          -> v.n # 0

\* v or ""
OrEmpty(v) == IF Truthy(v) THEN v ELSE Str(<<>>)

RECURSIVE SeqsUpTo(_, _)
\* the sequences of at most k elements of S
SeqsUpTo(S, k) ==
    IF k = 0 THEN {<<>>}
    ELSE LET prev == SeqsUpTo(S, k - 1)
         IN  prev \cup {Append(p, x) : p \in {q \in prev : Len(q) = k - 1}, x \in S}

----------------------------------------------------------------------------
(* Catalogues: ManipulateData.py lines 7-21 *)

STOPWORDS ==
    { <<"D","E">>, <<"D","E","L">>, <<"L","A">>, <<"E","L">>, <<"L","O","S">>, <<"L","A","S">>,
      <<"Y">>, <<"E">>, <<"A","L">>, <<"A">>, <<"E","N">>, <<"P","O","R">>, <<"P","A","R","A">>,
      <<"C","O","N">> }

MERCANTILES_O_INST ==
    { <<"S","A">>, <<"S","A","P","I">>, <<"C","V">>, <<"R","L">>, <<"S","R","L">>, <<"S","C">>,
      <<"A","C">>, <<"S","C","L">>, <<"S","N","C">>, <<"S","P","R">>,
      <<"S","O","C","I","E","D","A","D">>, <<"A","N","O","N","I","M","A">>,
      <<"R","E","S","P","O","N","S","A","B","I","L","I","D","A","D">>,
      <<"L","I","M","I","T","A","D","A">>, <<"P","R","O","M","O","T","O","R","A">>,
      <<"I","N","V","E","R","S","I","O","N">>, <<"C","O","O","P","E","R","A","T","I","V","A">>,
      <<"C","O","O","P">>, <<"C","A","P","I","T","A","L">>, <<"V","A","R","I","A","B","L","E">>,
      <<"H">>, <<"A","Y","U","N","T","A","M","I","E","N","T","O">>,
      <<"M","U","N","I","C","I","P","A","L">>, <<"M","U","N","I","C","I","P","I","O">>,
      <<"L","O","C">>, <<"E","J","I","D","O">>, <<"C","O","M","U","N","I","D","A","D">>,
      <<"C","O","L","O","N","I","A">>, <<"D","E","L","E","G","A","C","I","O","N">>,
      <<"A","L","C","A","L","D","I","A">> }

----------------------------------------------------------------------------
(* Character classes used by _estandarizar_texto *)

\* unicodedata.normalize('NFD', c).encode('ascii', 'ignore'): an ASCII
\* character is kept; an accented letter decomposes into its base letter and
\* a combining mark, and the mark is dropped; U+00D8 / U+00F8 have no
\* decomposition and are not ASCII, so they are dropped whole.
NfdAscii(c) ==
    CASE c = "a-acute" -> <<"a">>
      [] c = "A-acute" -> <<"A">>
      [] c = "e-acute" -> <<"e">>
      [] c = "N-tilde" -> <<"N">>
      [] c = "O-slash" -> <<>>
      [] c = "o-slash" -> <<>>
      [] OTHER         -> <<c>>

\* the characters of the class [.,()"'()]
Puntuacion == {".", ",", "(", ")", "dquote", "squote"}

\* the characters \s matches and str.split() / str.strip() cut on
Blanco == {" ", "tab"}

MAYUS ==
    "a" :> "A" @@ "b" :> "B" @@ "c" :> "C" @@ "d" :> "D" @@ "e" :> "E" @@ "f" :> "F" @@
    "g" :> "G" @@ "h" :> "H" @@ "i" :> "I" @@ "j" :> "J" @@ "k" :> "K" @@ "l" :> "L" @@
    "m" :> "M" @@ "n" :> "N" @@ "o" :> "O" @@ "p" :> "P" @@ "q" :> "Q" @@ "r" :> "R" @@
    "s" :> "S" @@ "t" :> "T" @@ "u" :> "U" @@ "v" :> "V" @@ "w" :> "W" @@ "x" :> "X" @@
    "y" :> "Y" @@ "z" :> "Z"

\* str.upper() on one (ASCII) character
Upper(c) == IF c \in DOMAIN MAYUS THEN MAYUS[c] ELSE c

----------------------------------------------------------------------------
(* The steps of _estandarizar_texto, ManipulateData.py lines 42-79 *)

RECURSIVE QuitarAcentos(_)
\* step 1, lines 43-44
QuitarAcentos(s) ==
    IF s = <<>> THEN <<>> ELSE NfdAscii(Head(s)) \o QuitarAcentos(Tail(s))

RECURSIVE Sustituir(_)
\* step 2, lines 47-48: .replace of the slashed O, then "&" -> " Y "
Sustituir(s) ==
    IF s = <<>> THEN <<>>
    ELSE (CASE Head(s) \in {"O-slash", "o-slash"} -> <<"O">>
            [] Head(s) = "&"                      -> <<" ", "Y", " ">>
            [] OTHER                              -> <<Head(s)>>)
         \o Sustituir(Tail(s))

\* step 3, line 52
QuitarPuntuacion(s) ==
    [i \in 1..Len(s) |-> IF s[i] \in Puntuacion THEN " " ELSE s[i]]

RECURSIVE Colapsar(_)
\* re.sub(r'\s+', ' ', s): every maximal run of blanks becomes one space
Colapsar(s) ==
    IF s = <<>> THEN <<>>
    ELSE IF Head(s) \in Blanco
         THEN IF Len(s) > 1 /\ s[2] \in Blanco
              THEN Colapsar(Tail(s))
              ELSE <<" ">> \o Colapsar(Tail(s))
         ELSE <<Head(s)>> \o Colapsar(Tail(s))

RECURSIVE LStrip(_)
LStrip(s) == IF s # <<>> /\ Head(s) \in Blanco THEN LStrip(Tail(s)) ELSE s

RECURSIVE RStrip(_)
RStrip(s) ==
    IF s # <<>> /\ s[Len(s)] \in Blanco THEN RStrip(SubSeq(s, 1, Len(s) - 1)) ELSE s

\* str.strip()
Strip(s) == RStrip(LStrip(s))

\* step 4, line 55
QuitarEspaciosExtra(s) == Strip(Colapsar(s))

\* step 5, line 58
Mayusculas(s) == [i \in 1..Len(s) |-> Upper(s[i])]

RECURSIVE SplitFrom(_, _)
\* str.split(): cur is the token being read, s the rest of the text
SplitFrom(cur, s) ==
    IF s = <<>> THEN (IF cur = <<>> THEN <<>> ELSE <<cur>>)
    ELSE IF Head(s) \in Blanco
         THEN (IF cur = <<>> THEN <<>> ELSE <<cur>>) \o SplitFrom(<<>>, Tail(s))
         ELSE SplitFrom(Append(cur, Head(s)), Tail(s))

\* line 61
Split(s) == SplitFrom(<<>>, s)

RECURSIVE Join(_)
\* " ".join(toks), line 73
Join(toks) ==
    IF toks = <<>> THEN <<>>
    ELSE IF Len(toks) = 1 THEN toks[1]
    ELSE toks[1] \o <<" ">> \o Join(Tail(toks))

\* [t for t in toks if t not in catalogo]
SinCatalogo(toks, catalogo) == SelectSeq(toks, LAMBDA t : t \notin catalogo)

\* [t for t in toks if len(t) > 1], line 71
SinTokens1Letra(toks) == SelectSeq(toks, LAMBDA t : Len(t) > 1)

\* step 6 with "elif" for the second "if": the stopword filter is skipped
\* when the institutional filter ran.  C17_Filtros tells this variant from
\* the code.
FiltrarTokensElif(s, c) ==
    LET t0 == Split(s)
        t1 == IF c.sin_terminos_mercantiles THEN SinCatalogo(t0, MERCANTILES_O_INST) ELSE t0
        t2 == IF c.sin_stopword /\ ~c.sin_terminos_mercantiles
              THEN SinCatalogo(t1, STOPWORDS) ELSE t1
        t3 == IF c.quitar_tokens_1_letra THEN SinTokens1Letra(t2) ELSE t2
    IN  Join(t3)

\* step 6, lines 61-73
FiltrarTokens(s, c) ==
    LET t0 == Split(s)
        t1 == IF c.sin_terminos_mercantiles THEN SinCatalogo(t0, MERCANTILES_O_INST) ELSE t0
        t2 == IF c.sin_stopword THEN SinCatalogo(t1, STOPWORDS) ELSE t1
        t3 == IF c.quitar_tokens_1_letra THEN SinTokens1Letra(t2) ELSE t2
    IN  Join(t3)

\* step 7, lines 76-77: texto.replace(" ", "")
QuitarEspacios(s) == SelectSeq(s, LAMBDA ch : ch # " ")

\* _estandarizar_texto with line 39 reduced to "if texto is None": a value
\* that is no str goes through the steps as text.  C7_NoneONoTexto tells
\* this variant from the code.
EstandarizarTextoSoloNone(v, c) ==
    IF v.tag = "none" THEN NoneV
    ELSE LET s1 == QuitarAcentos(v.s)
             s2 == Sustituir(s1)
             s3 == QuitarPuntuacion(s2)
             s4 == QuitarEspaciosExtra(s3)
             s5 == Mayusculas(s4)
             s6 == FiltrarTokens(s5, c)
             s7 == IF c.sin_espacios THEN QuitarEspacios(s6) ELSE s6
         IN  Str(s7)

\* _estandarizar_texto with steps 5 and 6 in the other order: the tokens are
\* filtered before the text is put in upper case.  C23_IdempotenteConEspacios
\* tells this variant from the code.
EstandarizarTextoFiltroAntes(v, c) ==
    IF v.tag = "none" \/ ~IsStr(v) THEN NoneV
    ELSE LET s1 == QuitarAcentos(v.s)
             s2 == Sustituir(s1)
             s3 == QuitarPuntuacion(s2)
             s4 == QuitarEspaciosExtra(s3)
             s5 == FiltrarTokens(s4, c)
             s6 == Mayusculas(s5)
             s7 == IF c.sin_espacios THEN QuitarEspacios(s6) ELSE s6
         IN  Str(s7)

\* ManipulateData._estandarizar_texto
EstandarizarTexto(v, c) ==
    IF v.tag = "none" \/ ~IsStr(v) THEN NoneV
    ELSE LET s1 == QuitarAcentos(v.s)
             s2 == Sustituir(s1)
             s3 == QuitarPuntuacion(s2)
             s4 == QuitarEspaciosExtra(s3)
             s5 == Mayusculas(s4)
             s6 == FiltrarTokens(s5, c)
             s7 == IF c.sin_espacios THEN QuitarEspacios(s6) ELSE s6
         IN  Str(s7)

Config == [sin_espacios : BOOLEAN, sin_stopword : BOOLEAN,
           sin_terminos_mercantiles : BOOLEAN, quitar_tokens_1_letra : BOOLEAN]

----------------------------------------------------------------------------
(* Python float arithmetic.                                                 *)
(*                                                                          *)
(* A Python float is an IEEE-754 binary64 number; score_y_clase and the     *)
(* metrics compute with them (product, quotient, sum and math.sqrt, each   *)
(* rounded to nearest, ties to even).  Only finite non-negative values in  *)
(* the normal range occur.  A float is [m, e] of value m * 2^e, m a natural *)
(* number in [2^52, 2^53), or m = 0 for 0.0.  The natural numbers needed    *)
(* are wider than a machine word of the checker, so a natural number is a   *)
(* sequence of limbs in base 2^14, least significant first.                 *)

LimbBits == 14
Base == 2 ^ LimbBits
\* binary64: 53 significant bits
Mant == 53

RECURSIVE BTrim(_)
\* drop the high zero limbs
BTrim(x) == IF x # <<>> /\ x[Len(x)] = 0 THEN BTrim(SubSeq(x, 1, Len(x) - 1)) ELSE x

RECURSIVE BFromNat(_)
BFromNat(k) == IF k = 0 THEN <<>> ELSE <<k % Base>> \o BFromNat(k \div Base)

BLimb(x, i) == IF i <= Len(x) THEN x[i] ELSE 0

RECURSIVE BAddC(_, _, _, _)
BAddC(x, y, i, carry) ==
    IF i > Len(x) /\ i > Len(y)
    THEN (IF carry = 0 THEN <<>> ELSE <<carry>>)
    ELSE LET t == BLimb(x, i) + BLimb(y, i) + carry
         IN  <<t % Base>> \o BAddC(x, y, i + 1, t \div Base)

BAdd(x, y) == BTrim(BAddC(x, y, 1, 0))

RECURSIVE BSubC(_, _, _, _)
\* x - y for x >= y
BSubC(x, y, i, borrow) ==
    IF i > Len(x) THEN <<>>
    ELSE LET t == BLimb(x, i) - BLimb(y, i) - borrow
         IN  IF t < 0 THEN <<t + Base>> \o BSubC(x, y, i + 1, 1)
                      ELSE <<t>> \o BSubC(x, y, i + 1, 0)

BSub(x, y) == BTrim(BSubC(x, y, 1, 0))

RECURSIVE BCmpAt(_, _, _)
BCmpAt(x, y, i) ==
    IF i = 0 THEN 0
    ELSE IF x[i] < y[i] THEN -1
    ELSE IF x[i] > y[i] THEN 1
    ELSE BCmpAt(x, y, i - 1)

\* -1, 0, 1 as x <, =, > y (both trimmed)
BCmp(x, y) ==
    IF Len(x) < Len(y) THEN -1
    ELSE IF Len(x) > Len(y) THEN 1
    ELSE BCmpAt(x, y, Len(x))

RECURSIVE BMulSmallC(_, _, _, _)
BMulSmallC(x, k, i, carry) ==
    IF i > Len(x)
    THEN (IF carry = 0 THEN <<>> ELSE <<carry>>)
    ELSE LET t == x[i] * k + carry
         IN  <<t % Base>> \o BMulSmallC(x, k, i + 1, t \div Base)

\* x * k for 0 <= k < Base
BMulSmall(x, k) == BTrim(BMulSmallC(x, k, 1, 0))

BZeros(n) == [i \in 1..n |-> 0]

RECURSIVE BMulFrom(_, _, _)
BMulFrom(x, y, j) ==
    IF j > Len(y) THEN <<>>
    ELSE BAdd(BZeros(j - 1) \o BMulSmall(x, y[j]), BMulFrom(x, y, j + 1))

BMul(x, y) == BMulFrom(x, y, 1)

RECURSIVE BitLenNat(_)
BitLenNat(k) == IF k = 0 THEN 0 ELSE 1 + BitLenNat(k \div 2)

\* number of significant bits of a trimmed x
BBitLen(x) == IF x = <<>> THEN 0 ELSE (Len(x) - 1) * LimbBits + BitLenNat(x[Len(x)])

\* x * 2^n
BShl(x, n) ==
    IF x = <<>> THEN <<>>
    ELSE BZeros(n \div LimbBits) \o BMulSmall(x, 2 ^ (n % LimbBits))

\* x \div 2^n
BShr(x, n) ==
    LET q == n \div LimbBits
        r == n % LimbBits
        y == IF q >= Len(x) THEN <<>> ELSE SubSeq(x, q + 1, Len(x))
    IN  BTrim([i \in 1..Len(y) |->
                 (y[i] \div (2 ^ r)) + (BLimb(y, i + 1) % (2 ^ r)) * (2 ^ (LimbBits - r))])

\* x % 2^n
BLow(x, n) ==
    LET q == n \div LimbBits
        r == n % LimbBits
    IN  BTrim([i \in 1..(IF r = 0 THEN q ELSE q + 1) |->
                 IF i <= q THEN BLimb(x, i) ELSE BLimb(x, i) % (2 ^ r)])

\* the value of a natural number of at most three limbs
BToNat(x) == BLimb(x, 1) + BLimb(x, 2) * Base + BLimb(x, 3) * Base * Base

\* a quotient digit d estimated from below, with the remainder r it leaves:
\* raised by one, at most twice, while the remainder is not below y
BCorrect(d, r, y) ==
    IF BCmp(r, y) >= 0 THEN [d |-> d + 1, r |-> BSub(r, y), more |-> TRUE]
    ELSE [d |-> d, r |-> r, more |-> FALSE]

BCorrect2(dr, y) == IF dr.more THEN BCorrect(dr.d, dr.r, y) ELSE dr

BDigitFrom(r1, y, est) == BCorrect2(BCorrect(est, BSub(r1, BMulSmall(y, est)), y), y)

\* one step of the long division: the digit and remainder of r1 by y
BDigit(r1, y, sh, ydiv) == BDigitFrom(r1, y, BToNat(BShr(r1, sh)) \div ydiv)

RECURSIVE BDivFrom(_, _, _, _, _, _, _)
RECURSIVE BDivNext(_, _, _, _, _, _, _)
\* long division in base 2^14: limbs i .. 1 of x are still to be brought
\* down, q and r are the quotient and remainder of the limbs above them.
\* The next quotient digit is estimated from below from the leading bits
\* (sh is how many low bits of the divisor are left out, ydiv its leading
\* part rounded up) and then corrected.
BDivFrom(x, y, sh, ydiv, i, q, r) ==
    IF i = 0 THEN [q |-> BTrim(q), r |-> r]
    ELSE BDivNext(x, y, sh, ydiv, i, q, BDigit(BTrim(<<x[i]>> \o r), y, sh, ydiv))

\* dr is the digit and remainder found for limb i; they are in hand here,
\* before the next limb is brought down
BDivNext(x, y, sh, ydiv, i, q, dr) ==
    IF dr.d + Len(dr.r) >= 0
    THEN BDivFrom(x, y, sh, ydiv, i - 1, <<dr.d>> \o q, dr.r)
    ELSE [q |-> q, r |-> dr.r]

\* [q, r] with x = q * y + r, 0 <= r < y, for y # 0
BDivMod(x, y) ==
    LET sh   == IF BBitLen(y) > LimbBits + 1 THEN BBitLen(y) - (LimbBits + 1) ELSE 0
        ytop == BToNat(BShr(y, sh))
        ydiv == IF sh = 0 THEN ytop ELSE ytop + 1
    IN  BDivFrom(x, y, sh, ydiv, Len(x), <<>>, <<>>)

RECURSIVE BSqrtNewton(_, _)
RECURSIVE BSqrtStep(_, _, _)
\* Newton's iteration downwards from an x >= sqrt(X)
BSqrtNewton(X, x) == BSqrtStep(X, x, BShr(BAdd(x, BDivMod(X, x).q), 1))

\* y is the next iterate after x
BSqrtStep(X, x, y) == IF BCmp(y, x) >= 0 THEN x ELSE BSqrtNewton(X, y)

BWithRem(x, q) == [q |-> q, r |-> BSub(x, BMul(q, q))]

\* [q, r] with q = floor(sqrt(x)), r = x - q*q
BSqrtRem(x) ==
    IF x = <<>> THEN [q |-> <<>>, r |-> <<>>]
    ELSE BWithRem(x, BSqrtNewton(x, BShl(<<1>>, (BBitLen(x) + 1) \div 2)))

FZero == [m |-> <<>>, e |-> 0]

\* no float: the division whose divisor is 0 raises ZeroDivisionError, and
\* the expressions around it are not evaluated
Indefinido == [m |-> <<>>, e |-> 1]

\* q * 2^e, q of Mant bits or, after a carry out of the rounding, one more
FNormal(q1, e) ==
    IF BBitLen(q1) > Mant THEN [m |-> BShr(q1, 1), e |-> e + 1] ELSE [m |-> q1, e |-> e]

\* q rounded up when the part cut off (rem, of d bits) is above half a unit,
\* or is half a unit and q is odd
FRoundUp(q, c, sticky) ==
    IF c > 0 \/ (c = 0 /\ (sticky \/ q[1] % 2 = 1)) THEN BAdd(q, <<1>>) ELSE q

\* N of L bits
FRoundLen(N, e, sticky, L) ==
    IF L = 0 THEN FZero
    ELSE IF L <= Mant THEN [m |-> BShl(N, Mant - L), e |-> e - (Mant - L)]
    ELSE FNormal(FRoundUp(BShr(N, L - Mant),
                          BCmp(BLow(N, L - Mant), BShl(<<1>>, L - Mant - 1)), sticky),
                 e + (L - Mant))

\* the float nearest to N * 2^e (plus a positive amount below one unit of N
\* when sticky), ties to even
FRound(N, e, sticky) == FRoundLen(N, e, sticky, BBitLen(N))

\* x / y, y # 0
FDivOf(x, y, d) == FRound(d.q, x.e - (Mant + 3) - y.e, d.r # <<>>)

\* math.sqrt of m2 * 2^e2, e2 even
FSqrtOf(e2, s) == FRound(s.q, e2 \div 2, s.r # <<>>)

\* float(k) for a natural number k
FInt(k) == FRound(BFromNat(k), 0, FALSE)

\* x * y
FMul(x, y) ==
    IF x = Indefinido \/ y = Indefinido THEN Indefinido
    ELSE FRound(BMul(x.m, y.m), x.e + y.e, FALSE)

\* x + y
FAdd(x, y) ==
    IF x = Indefinido \/ y = Indefinido THEN Indefinido
    ELSE IF x.m = <<>> THEN y
    ELSE IF y.m = <<>> THEN x
    ELSE LET e == IF x.e < y.e THEN x.e ELSE y.e
         IN  FRound(BAdd(BShl(x.m, x.e - e), BShl(y.m, y.e - e)), e, FALSE)

\* x / y
FDiv(x, y) ==
    IF y.m = <<>> THEN Indefinido
    ELSE IF x.m = <<>> THEN FZero
    ELSE FDivOf(x, y, BDivMod(BShl(x.m, Mant + 3), y.m))

\* math.sqrt(x)
FSqrt(x) ==
    IF x.m = <<>> THEN FZero
    ELSE LET k == IF x.e % 2 = 1 THEN Mant + 4 ELSE Mant + 3
         IN  FSqrtOf(x.e - k, BSqrtRem(BShl(x.m, k)))

\* x < y
FLt(x, y) ==
    IF y.m = <<>> THEN FALSE
    ELSE IF x.m = <<>> THEN TRUE
    ELSE x.e < y.e \/ (x.e = y.e /\ BCmp(x.m, y.m) < 0)

FLe(x, y) == ~FLt(y, x)
FGe(x, y) == ~FLt(x, y)
FGt(x, y) == FLt(y, x)

\* a decimal literal num/den, read as the nearest float
FLit(num, den) == FDiv(FInt(num), FInt(den))

\* int(round(x)): the integer nearest to x, ties to the even one
PyRound(x) ==
    IF x.m = <<>> THEN 0
    ELSE IF x.e >= 0 THEN BToNat(BShl(x.m, x.e))
    ELSE LET d    == -x.e
             q    == BShr(x.m, d)
             c    == BCmp(BLow(x.m, d), BShl(<<1>>, d - 1))
             qn   == BToNat(q)
         IN  IF c > 0 \/ (c = 0 /\ qn % 2 = 1) THEN qn + 1 ELSE qn

----------------------------------------------------------------------------
(* MetodoLexico: length prefilter, MetodoLexico.py lines 45-57 *)

\* default arguments of length_prefilter: base_abs = 5, rel_long = 0.5
base_abs == 5
rel_long == FLit(5, 10)

Max2(x, y) == IF x >= y THEN x ELSE y
AbsDiff(x, y) == IF x >= y THEN x - y ELSE y - x

\* the literals 0.20 and 0.40 of lines 53-54
Rel020 == FLit(20, 100)
Rel040 == FLit(40, 100)

\* lines 55-56: gap_abs / lmax
GapRel(len_a, len_b) == FDiv(FInt(AbsDiff(len_a, len_b)), FInt(Max2(len_a, len_b)))

\* length_prefilter gets to line 56 (past the return of lines 51-52) and the
\* division there raises
GateIndefinido(len_a, len_b) ==
    Max2(len_a, len_b) > 3 /\ GapRel(len_a, len_b) = Indefinido

\* length_prefilter with ">=" for ">" in the absolute test of line 57.
\* C10_Prefiltro tells this variant from the code.
LengthPrefilterLensLaxo(len_a, len_b) ==
    LET lmax == Max2(len_a, len_b)
    IN  IF lmax <= 3 THEN FALSE
        ELSE LET abs_thr == Max2(base_abs, PyRound(FMul(Rel020, FInt(lmax))))
                 rel_thr == IF lmax < 10 THEN Rel040 ELSE rel_long
                 gap_abs == AbsDiff(len_a, len_b)
                 gap_rel == GapRel(len_a, len_b)
             IN  gap_abs >= abs_thr /\ FGt(gap_rel, rel_thr)

\* length_prefilter with line 57 reduced to its relative test.
\* C22_UnaVacia tells this variant from the code.
LengthPrefilterLensSoloRelativo(len_a, len_b) ==
    LET lmax == Max2(len_a, len_b)
    IN  IF lmax <= 3 THEN FALSE
        ELSE FGt(GapRel(len_a, len_b), IF lmax < 10 THEN Rel040 ELSE rel_long)

\* lines 50-57 on the two lengths
LengthPrefilterLens(len_a, len_b) ==
    LET lmax == Max2(len_a, len_b)
    IN  IF lmax <= 3 THEN FALSE
        ELSE LET abs_thr == Max2(base_abs, PyRound(FMul(Rel020, FInt(lmax))))
                 rel_thr == IF lmax < 10 THEN Rel040 ELSE rel_long
                 gap_abs == AbsDiff(len_a, len_b)
                 gap_rel == GapRel(len_a, len_b)
             IN  gap_abs > abs_thr /\ FGt(gap_rel, rel_thr)

----------------------------------------------------------------------------
(* MetodoLexico: lexical metrics, MetodoLexico.py lines 62-110 *)

RECURSIVE SepSplit(_, _)
\* cut at every blank, keeping empty pieces
SepSplit(cur, s) ==
    IF s = <<>> THEN <<cur>>
    ELSE IF Head(s) \in Blanco
         THEN <<cur>> \o SepSplit(<<>>, Tail(s))
         ELSE SepSplit(Append(cur, Head(s)), Tail(s))

\* re.split(r"\s+", s): cut at every maximal run of blanks
ReSplit(s) == SepSplit(<<>>, Colapsar(s))

\* _tokens, line 63
Tokens(s) == SelectSeq(ReSplit(Strip(s)), LAMBDA t : t # <<>>)

Range(f) == {f[i] : i \in DOMAIN f}

\* lines 73-78 counting the tokens of the two lists instead of the two sets:
\* a repeated token counts once per occurrence.  C11_Jaccard tells this
\* variant from the code.
JaccardConListas(sa, sb) ==
    LET A == Range(Tokens(sa))
        B == Range(Tokens(sb))
    IN  IF A = {} /\ B = {} THEN FZero
        ELSE FDiv(FMul(FInt(100), FInt(Cardinality(A \cap B))),
                  FInt(Len(Tokens(sa)) + Len(Tokens(sb)) - Cardinality(A \cap B)))

\* jaccard on two standardised strings, lines 73-78
Jaccard(sa, sb) ==
    LET A == Range(Tokens(sa))
        B == Range(Tokens(sb))
    IN  IF A = {} /\ B = {} THEN FZero
        ELSE LET inter == Cardinality(A \cap B)
                 union == IF A # {} \/ B # {} THEN Cardinality(A \cup B) ELSE 1
             IN  FDiv(FMul(FInt(100), FInt(inter)), FInt(union))

Min2(x, y) == IF x <= y THEN x ELSE y

\* s[i:j] with Python's reading of negative and out-of-range bounds
\* (positions counted from 0)
PySlice(s, i, j) ==
    LET n  == Len(s)
        i1 == IF i < 0 THEN Max2(n + i, 0) ELSE Min2(i, n)
        j1 == IF j < 0 THEN Max2(n + j, 0) ELSE Min2(j, n)
    IN  IF j1 <= i1 THEN <<>> ELSE SubSeq(s, i1 + 1, j1)

\* line 84 with max(1, ...) for max(0, ...): a text shorter than q gives
\* one gram, the text itself.  C18_SinDivisionPorCero tells this variant
\* from the code.
GramsAlMenosUno(u, q) == [i \in 1..Max2(1, Len(u) - q + 1) |-> PySlice(u, i - 1, i - 1 + q)]

\* line 84: [s[i:i+q] for i in range(max(0, len(s) - q + 1))]
Grams(u, q) == [i \in 1..Max2(0, Len(u) - q + 1) |-> PySlice(u, i - 1, i - 1 + q)]

\* lines 86-89: the count of every gram of the list
Counter(grams) ==
    [g \in Range(grams) |-> Cardinality({i \in DOMAIN grams : grams[i] = g})]

\* _qgram_vec, lines 80-89
QgramVec(s, q) ==
    IF s = <<>> THEN <<>>
    ELSE Counter(Grams(Mayusculas(s), q))

RECURSIVE SumOver(_, _)
\* sum of f over the finite set S
SumOver(f, S) ==
    IF S = {} THEN 0
    ELSE LET k == CHOOSE k \in S : TRUE IN f[k] + SumOver(f, S \ {k})

Get(d, k) == IF k \in DOMAIN d THEN d[k] ELSE 0

\* line 95: sum(a.get(k, 0) * b.get(k, 0) for k in keys)
Dot(va, vb, keys) == SumOver([k \in keys |-> Get(va, k) * Get(vb, k)], keys)

\* lines 96-97: math.sqrt(sum(v * v for v in a.values()))
Norma(va) == FSqrt(FInt(SumOver([k \in DOMAIN va |-> va[k] * va[k]], DOMAIN va)))

\* line 98
CosineOf(dot, na, nb) ==
    IF na = FZero \/ nb = FZero THEN FZero ELSE FDiv(FInt(dot), FMul(na, nb))

\* _cosine_counts, lines 91-98
CosineCounts(va, vb) ==
    IF DOMAIN va = {} \/ DOMAIN vb = {} THEN FZero
    ELSE CosineOf(Dot(va, vb, DOMAIN va \cup DOMAIN vb), Norma(va), Norma(vb))

\* cosine on two standardised strings, lines 108-110
CosineQgramsOf(sa, sb, q) ==
    FMul(FInt(100), CosineCounts(QgramVec(sa, q), QgramVec(sb, q)))

----------------------------------------------------------------------------
(* MetodoLexico: character differences, MetodoLexico.py lines 177-213 *)

\* the marker written for a missing character (U+2205)
Ausente == "emptyset"

\* the block find_longest_match picks among the common blocks cands
Mejor(cands, ninguno) ==
    IF cands = {} THEN ninguno
    ELSE CHOOSE m \in cands :
            \A o \in cands :
                \/ m[3] > o[3]
                \/ (m[3] = o[3] /\ m[1] < o[1])
                \/ (m[3] = o[3] /\ m[1] = o[1] /\ m[2] <= o[2])

\* difflib.SequenceMatcher.find_longest_match without junk: the longest
\* block sa[i:i+k] = sb[j:j+k] inside sa[alo:ahi], sb[blo:bhi]; of the
\* longest ones the one starting earliest in sa, then earliest in sb
FindLongestMatch(sa, sb, alo, ahi, blo, bhi) ==
    Mejor({m \in (alo..(ahi - 1)) \X (blo..(bhi - 1)) \X (1..Min2(ahi - alo, bhi - blo)) :
             /\ m[1] + m[3] <= ahi
             /\ m[2] + m[3] <= bhi
             /\ PySlice(sa, m[1], m[1] + m[3]) = PySlice(sb, m[2], m[2] + m[3])},
          <<alo, blo, 0>>)

RECURSIVE MatchingBlocksIn(_, _, _, _, _, _)
RECURSIVE MatchingBlocksAround(_, _, _, _, _, _, _)
\* the matching blocks of sa[alo:ahi] and sb[blo:bhi], left to right
MatchingBlocksIn(sa, sb, alo, ahi, blo, bhi) ==
    MatchingBlocksAround(sa, sb, alo, ahi, blo, bhi,
                         FindLongestMatch(sa, sb, alo, ahi, blo, bhi))

\* m is the longest block of the window: the blocks left of it, m, the
\* blocks right of it
MatchingBlocksAround(sa, sb, alo, ahi, blo, bhi, m) ==
    IF m[3] = 0 THEN <<>>
    ELSE (IF alo < m[1] /\ blo < m[2]
          THEN MatchingBlocksIn(sa, sb, alo, m[1], blo, m[2]) ELSE <<>>)
         \o <<m>>
         \o (IF m[1] + m[3] < ahi /\ m[2] + m[3] < bhi
             THEN MatchingBlocksIn(sa, sb, m[1] + m[3], ahi, m[2] + m[3], bhi) ELSE <<>>)

RECURSIVE Collapse(_)
\* adjacent blocks become one
Collapse(bl) ==
    IF Len(bl) < 2 THEN bl
    ELSE LET x == bl[1]
             y == bl[2]
         IN  IF x[1] + x[3] = y[1] /\ x[2] + x[3] = y[2]
             THEN Collapse(<<<<x[1], x[2], x[3] + y[3]>>>> \o SubSeq(bl, 3, Len(bl)))
             ELSE <<x>> \o Collapse(Tail(bl))

\* get_matching_blocks: the blocks, then the closing block of size 0
MatchingBlocks(sa, sb) ==
    Collapse(MatchingBlocksIn(sa, sb, 0, Len(sa), 0, Len(sb))) \o <<<<Len(sa), Len(sb), 0>>>>

RECURSIVE OpcodesFrom(_, _, _)
\* get_opcodes: i, j are where the previous block ended
OpcodesFrom(bl, i, j) ==
    IF bl = <<>> THEN <<>>
    ELSE LET ai   == bl[1][1]
             bj   == bl[1][2]
             size == bl[1][3]
             tag  == IF i < ai /\ j < bj THEN "replace"
                     ELSE IF i < ai THEN "delete"
                     ELSE IF j < bj THEN "insert"
                     ELSE ""
         IN  (IF tag # "" THEN <<<<tag, i, ai, j, bj>>>> ELSE <<>>)
             \o (IF size > 0 THEN <<<<"equal", ai, ai + size, bj, bj + size>>>> ELSE <<>>)
             \o OpcodesFrom(Tail(bl), ai + size, bj + size)

\* an edit script that aligns nothing: the whole of sa is replaced by the
\* whole of sb.  C24_ParesDistintos tells this variant from get_opcodes.
GetOpcodesSinAlinear(sa, sb) ==
    IF sa = <<>> /\ sb = <<>> THEN <<>>
    ELSE IF sa = <<>> THEN <<<<"insert", 0, 0, 0, Len(sb)>>>>
    ELSE IF sb = <<>> THEN <<<<"delete", 0, Len(sa), 0, 0>>>>
    ELSE <<<<"replace", 0, Len(sa), 0, Len(sb)>>>>

GetOpcodes(sa, sb) == OpcodesFrom(MatchingBlocks(sa, sb), 0, 0)

\* lines 189-206 without the two loops over a_sub[m:] and b_sub[m:]: a
\* replace gives its m substitutions only.  C19_ParesPorOpcode tells this
\* variant from the code.
ParesDeSinExceso(sa, sb, op) ==
    LET tag   == op[1]
        a_sub == PySlice(sa, op[2], op[3])
        b_sub == PySlice(sb, op[4], op[5])
        m     == Min2(Len(a_sub), Len(b_sub))
    IN  CASE tag = "replace" -> [k \in 1..m |-> <<a_sub[k], b_sub[k]>>]
          [] tag = "delete" -> [k \in 1..Len(a_sub) |-> <<a_sub[k], Ausente>>]
          [] tag = "insert" -> [k \in 1..Len(b_sub) |-> <<Ausente, b_sub[k]>>]
          [] OTHER -> <<>>

\* lines 189-206 for one opcode
ParesDe(sa, sb, op) ==
    LET tag   == op[1]
        a_sub == PySlice(sa, op[2], op[3])
        b_sub == PySlice(sb, op[4], op[5])
        m     == Min2(Len(a_sub), Len(b_sub))
    IN  CASE tag = "replace" ->
                [k \in 1..m |-> <<a_sub[k], b_sub[k]>>]
                \o [k \in 1..(Len(a_sub) - m) |-> <<a_sub[m + k], Ausente>>]
                \o [k \in 1..(Len(b_sub) - m) |-> <<Ausente, b_sub[m + k]>>]
          [] tag = "delete" -> [k \in 1..Len(a_sub) |-> <<a_sub[k], Ausente>>]
          [] tag = "insert" -> [k \in 1..Len(b_sub) |-> <<Ausente, b_sub[k]>>]
          [] OTHER -> <<>>

RECURSIVE ParesDeTodos(_, _, _)
\* lines 187-206: the pairs of every opcode, in order
ParesDeTodos(sa, sb, ops) ==
    IF ops = <<>> THEN <<>>
    ELSE ParesDe(sa, sb, Head(ops)) \o ParesDeTodos(sa, sb, Tail(ops))

RECURSIVE UnicosUltimaAparicion(_, _)
\* lines 208-212 keeping the last occurrence of a pair instead of the first.
\* C20_SinDuplicados tells this variant from the code.
UnicosUltimaAparicion(pairs, seen) ==
    IF pairs = <<>> THEN <<>>
    ELSE IF Head(pairs) \in Range(Tail(pairs)) THEN UnicosUltimaAparicion(Tail(pairs), seen)
    ELSE <<Head(pairs)>> \o UnicosUltimaAparicion(Tail(pairs), seen)

RECURSIVE Unicos(_, _)
\* lines 208-212: first occurrences, in order
Unicos(pairs, seen) ==
    IF pairs = <<>> THEN <<>>
    ELSE IF Head(pairs) \in seen THEN Unicos(Tail(pairs), seen)
    ELSE <<Head(pairs)>> \o Unicos(Tail(pairs), seen \cup {Head(pairs)})

\* conflicting_characters on the original strings
ConflictingCharacters(sa, sb) == Unicos(ParesDeTodos(sa, sb, GetOpcodes(sa, sb)), {})

----------------------------------------------------------------------------
(* MetodoLexico: the object and its requests *)

\* the configuration of normalization_and_soft_standardization, lines 32-37
Suave == [sin_espacios |-> FALSE, sin_stopword |-> TRUE,
          sin_terminos_mercantiles |-> TRUE, quitar_tokens_1_letra |-> TRUE]

\* what a call returns: fn the function called, q its q argument (cosine
\* only), exc the exception it raised ("" for none), and its value in the
\* field of its type: v (bool), x (float), or the triple x, clase, lista
SinRet == [fn |-> "", q |-> 0, exc |-> "", v |-> FALSE, x |-> FZero, clase |-> -1, lista |-> <<>>]

\* the return of a metric: its value x, or the ZeroDivisionError of a
\* division by zero inside it
Retorno(fn, q, x) ==
    IF x = Indefinido
    THEN [SinRet EXCEPT !.fn = fn, !.q = q, !.exc = "ZeroDivisionError"]
    ELSE [SinRet EXCEPT !.fn = fn, !.q = q, !.x = x]

\* "self.a_std is None or self.b_std is None"
SinEstandarizar == a_std = NoneV \/ b_std = NoneV

\* self.a_std, self.b_std once the request has made sure they exist
\* (lines 38-39 when normalization_and_soft_standardization runs)
AStd == IF SinEstandarizar THEN OrEmpty(EstandarizarTexto(a, Suave)) ELSE a_std
BStd == IF SinEstandarizar THEN OrEmpty(EstandarizarTexto(b, Suave)) ELSE b_std

\* the same lines without their test: every operation normalises again.
\* C16_Cache tells this variant from the code.
AsegurarSiempre ==
    /\ a_std' = OrEmpty(EstandarizarTexto(a, Suave))
    /\ b_std' = OrEmpty(EstandarizarTexto(b, Suave))
    /\ normalizaciones' = normalizaciones + 1

\* "if self.a_std is None or self.b_std is None:
\*      self.normalization_and_soft_standardization()"
\* (lines 46-47, 70-71, 104-105, 141-142)
Asegurar ==
    /\ a_std' = AStd
    /\ b_std' = BStd
    /\ normalizaciones' = IF SinEstandarizar THEN normalizaciones + 1 ELSE normalizaciones

\* the thresholds and weights of score_y_clase, lines 151-164
U75 == FInt(75)
U85 == FInt(85)
U90 == FInt(90)
U92 == FInt(92)
U93 == FInt(93)
U95 == FInt(95)
Peso04 == FLit(4, 10)
Peso02 == FLit(2, 10)

\* the rule of lines 151-153 with ">" for ">=" in its first test.
\* C2_Veredicto tells this variant from the code.
EsMismoEstricto(j, t, c, jc) ==
    \/ (FGt(j, U93) /\ FGe(t, U93))
    \/ (FGe(t, U95) /\ FGe(c, U92))
    \/ (FGe(j, U90) /\ FGe(jc, U75))

\* lines 151-153 with 75 for 90 in the third test: a pair with jw and ts
\* below 85 can be SAME.  C21_Excluyentes tells this variant from the code.
EsMismoSolapado(j, t, c, jc) ==
    \/ (FGe(j, U93) /\ FGe(t, U93))
    \/ (FGe(t, U95) /\ FGe(c, U92))
    \/ (FGe(j, U75) /\ FGe(jc, U75))

\* lines 151-153
EsMismo(j, t, c, jc) ==
    \/ (FGe(j, U93) /\ FGe(t, U93))
    \/ (FGe(t, U95) /\ FGe(c, U92))
    \/ (FGe(j, U90) /\ FGe(jc, U75))

\* line 154
EsDistinto(j, t) == FLt(j, U85) /\ FLt(t, U85)

\* lines 156-161
Clase(j, t, c, jc) ==
    IF EsMismo(j, t, c, jc) THEN 1
    ELSE IF EsDistinto(j, t) THEN 0
    ELSE 2

\* line 164 with the 20% weight put on the Jaccard value.  C4_Score tells
\* this variant from the code.
ScoreConJaccard(j, t, c) == FAdd(FAdd(FMul(Peso04, j), FMul(Peso04, t)), FMul(Peso02, jac))

\* line 164
Score(j, t, c) == FAdd(FAdd(FMul(Peso04, j), FMul(Peso04, t)), FMul(Peso02, c))

\* longest name passed to MetodoLexico, in words
MaxTokens == 2

Vocabulario == { <<"S","A">>, <<"R","I","O">>, <<"G","R","U","P","O">> }

Nombres == {Join(ws) : ws \in SeqsUpTo(Vocabulario, MaxTokens)}

Entradas == {Str(s) : s \in Nombres} \cup {NoneV, IntV(7)}

\* what jellyfish.jaro_winkler_similarity(a, b) * 100.0 and
\* fuzz.token_set_ratio(a, b) may return: the libraries are not part of the
\* repository, so any of these values is taken as possible for any pair
JWValores == {0, 84, 85, 90, 93, 100}
TSValores == {0, 84, 85, 93, 95, 100}

\* the q arguments cosine_qgrams is called with
QValores == {-1, 0, 1, 3, 4}

NormIdle ==
    /\ texto = NoneV
    /\ cfg = Suave
    /\ entrada = NoneV
    /\ pasadas = <<>>

GateIdle ==
    /\ lens = <<0, 0>>
    /\ gate = "unset"

ColIdle ==
    /\ columna = <<>>
    /\ cfn = ""
    /\ salida = <<>>

DiffIdle ==
    /\ cadenas = <<<<>>, <<>>>>
    /\ dpc = "none"
    /\ opcodes = <<>>
    /\ pares = <<>>
    /\ unicos = <<>>

\* MetodoLexico.__init__, lines 11-15
Init ==
    /\ args \in Entradas \X Entradas
    /\ a = OrEmpty(args[1])
    /\ b = OrEmpty(args[2])
    /\ a_std = NoneV
    /\ b_std = NoneV
    /\ pc = "idle"
    /\ jw = FZero /\ ts = FZero /\ cq = FZero /\ jac = FZero
    /\ clase = -1
    /\ score = FZero
    /\ ret = SinRet
    /\ evaluadas = {}
    /\ normalizaciones = 0
    /\ llamadas = 0
    /\ NormIdle
    /\ GateIdle
    /\ ColIdle
    /\ DiffIdle

\* a call of length_prefilter() by the user of the object
LengthPrefilter ==
    /\ pc = "idle"
    /\ Asegurar
    /\ ret' = IF GateIndefinido(Len(AStd.s), Len(BStd.s))
              THEN [SinRet EXCEPT !.fn = "length_prefilter", !.exc = "ZeroDivisionError"]
              ELSE [SinRet EXCEPT !.fn = "length_prefilter",
                                  !.v = LengthPrefilterLens(Len(AStd.s), Len(BStd.s))]
    /\ evaluadas' = {"length_prefilter"}
    /\ pc' = "done"
    /\ UNCHANGED <<args, a, b, llamadas, jw, ts, cq, jac, clase, score, nvars, gvars, cvars, dvars>>

\* a call of jaccard_similarity() by the user of the object
JaccardSimilarity ==
    /\ pc = "idle"
    /\ Asegurar
    /\ ret' = Retorno("jaccard_similarity", 0, Jaccard(AStd.s, BStd.s))
    /\ evaluadas' = {"jaccard_similarity"}
    /\ pc' = "done"
    /\ UNCHANGED <<args, a, b, llamadas, jw, ts, cq, jac, clase, score, nvars, gvars, cvars, dvars>>

\* a call of cosine_qgrams(q) by the user of the object
CosineQgrams ==
    /\ pc = "idle"
    /\ \E q \in QValores :
          ret' = Retorno("cosine_qgrams", q, CosineQgramsOf(AStd.s, BStd.s, q))
    /\ Asegurar
    /\ evaluadas' = {"cosine_qgrams"}
    /\ pc' = "done"
    /\ UNCHANGED <<args, a, b, llamadas, jw, ts, cq, jac, clase, score, nvars, gvars, cvars, dvars>>

\* score_y_clase without the early return of lines 137-138: the prefilter is
\* evaluated and the request goes on to the metrics.  C1_CortePorLongitud
\* tells this variant from the code.
ScorePrefiltroSinCorte ==
    /\ pc = "idle"
    /\ Asegurar
    /\ evaluadas' = {"length_prefilter"}
    /\ pc' = "metricas"
    /\ ret' = SinRet
    /\ UNCHANGED <<args, a, b, llamadas, jw, ts, cq, jac, clase, score, nvars, gvars, cvars, dvars>>

\* score_y_clase, lines 136-138: the prefilter, and the early return
ScorePrefiltro ==
    /\ pc = "idle"
    /\ Asegurar
    /\ evaluadas' = {"length_prefilter"}
    /\ IF GateIndefinido(Len(AStd.s), Len(BStd.s))
       THEN /\ pc' = "raised"
            /\ ret' = [SinRet EXCEPT !.fn = "score_y_clase", !.exc = "ZeroDivisionError"]
       ELSE IF LengthPrefilterLens(Len(AStd.s), Len(BStd.s))
       THEN /\ pc' = "done"
            /\ ret' = [SinRet EXCEPT !.fn = "score_y_clase", !.x = FZero,
                                     !.clase = 0, !.lista = <<>>]
       ELSE /\ pc' = "metricas"
            /\ ret' = SinRet
    /\ UNCHANGED <<args, a, b, llamadas, jw, ts, cq, jac, clase, score, nvars, gvars, cvars, dvars>>

\* lines 147-148 with their values c and x: a division by zero in either
\* raises out of score_y_clase
ScoreMetricasCon(c, x) ==
    IF c = Indefinido \/ x = Indefinido
    THEN /\ pc' = "raised"
         /\ ret' = [SinRet EXCEPT !.fn = "score_y_clase", !.exc = "ZeroDivisionError"]
         /\ evaluadas' = evaluadas \cup
               {"jaro_winkler_distance", "token_set_ratio", "cosine_qgrams"}
         /\ UNCHANGED <<jw, ts, cq, jac>>
    ELSE /\ pc' = "reglas"
         /\ cq' = c
         /\ jac' = x
         /\ \E j \in JWValores, t \in TSValores :
               /\ jw' = FInt(j)
               /\ ts' = FInt(t)
         /\ evaluadas' = evaluadas \cup
               {"jaro_winkler_distance", "token_set_ratio", "cosine_qgrams",
                "jaccard_similarity"}
         /\ UNCHANGED ret

\* score_y_clase, lines 140-148: the four metrics.  The two library calls
\* take str arguments only and raise TypeError on anything else.
ScoreMetricas ==
    /\ pc = "metricas"
    /\ Asegurar
    /\ IF ~IsStr(a) \/ ~IsStr(b)
       THEN /\ pc' = "raised"
            /\ ret' = [SinRet EXCEPT !.fn = "score_y_clase", !.exc = "TypeError"]
            /\ evaluadas' = evaluadas \cup {"jaro_winkler_distance"}
            /\ UNCHANGED <<jw, ts, cq, jac>>
       ELSE ScoreMetricasCon(CosineQgramsOf(AStd.s, BStd.s, 3), Jaccard(AStd.s, BStd.s))
    /\ UNCHANGED <<args, a, b, llamadas, clase, score, nvars, gvars, cvars, dvars>>

\* score_y_clase, lines 150-164: the rules and the score
ScoreReglas ==
    /\ pc = "reglas"
    /\ clase' = Clase(jw, ts, cq, jac)
    /\ score' = Score(jw, ts, cq)
    /\ pc' = "conflictos"
    /\ UNCHANGED <<args, a, b, llamadas, a_std, b_std, normalizaciones, jw, ts, cq, jac, ret, evaluadas, nvars, gvars, cvars, dvars>>

\* lines 166-172 with "clase != 0" for "clase == 1": the list is computed
\* for an undetermined pair too.  C3_ConflictosSoloMismo tells this variant
\* from the code.
ScoreConflictosNoDistinto ==
    /\ pc = "conflictos"
    /\ IF clase # 0
       THEN /\ ret' = [SinRet EXCEPT !.fn = "score_y_clase", !.x = score, !.clase = clase,
                                     !.lista = ConflictingCharacters(a.s, b.s)]
            /\ evaluadas' = evaluadas \cup {"conflicting_characters"}
       ELSE /\ ret' = [SinRet EXCEPT !.fn = "score_y_clase", !.x = score, !.clase = clase,
                                     !.lista = <<>>]
            /\ UNCHANGED evaluadas
    /\ pc' = "done"
    /\ UNCHANGED <<args, a, b, llamadas, a_std, b_std, normalizaciones, jw, ts, cq, jac, clase, score, nvars, gvars, cvars, dvars>>

\* score_y_clase, lines 166-172: the conflict list and the return
ScoreConflictos ==
    /\ pc = "conflictos"
    /\ IF clase = 1
       THEN /\ ret' = [SinRet EXCEPT !.fn = "score_y_clase", !.x = score, !.clase = clase,
                                     !.lista = ConflictingCharacters(a.s, b.s)]
            /\ evaluadas' = evaluadas \cup {"conflicting_characters"}
       ELSE /\ ret' = [SinRet EXCEPT !.fn = "score_y_clase", !.x = score, !.clase = clase,
                                     !.lista = <<>>]
            /\ UNCHANGED evaluadas
    /\ pc' = "done"
    /\ UNCHANGED <<args, a, b, llamadas, a_std, b_std, normalizaciones, jw, ts, cq, jac, clase, score, nvars, gvars, cvars, dvars>>

Next ==
    \/ LengthPrefilter
    \/ JaccardSimilarity
    \/ CosineQgrams
    \/ ScorePrefiltro
    \/ ScoreMetricas
    \/ ScoreReglas
    \/ ScoreConflictos

Spec == Init /\ [][Next]_vars

\* no object: the requests below are on standalone functions
ObjIdle ==
    /\ args = <<NoneV, NoneV>>
    /\ a = Str(<<>>) /\ b = Str(<<>>)
    /\ a_std = NoneV /\ b_std = NoneV
    /\ pc = "none"
    /\ jw = FZero /\ ts = FZero /\ cq = FZero /\ jac = FZero
    /\ clase = -1
    /\ score = FZero
    /\ ret = SinRet
    /\ evaluadas = {}
    /\ normalizaciones = 0
    /\ llamadas = 0

----------------------------------------------------------------------------
(* Properties of specification Spec (the comparison engine) *)

\* the request was score_y_clase and it returned
Devuelto == pc = "done" /\ ret.fn = "score_y_clase" /\ ret.exc = ""

\* the length gate on the soft forms the request worked on
GateDisparo == LengthPrefilterLens(Len(a_std.s), Len(b_std.s))

Metricas == {"jaro_winkler_distance", "token_set_ratio", "cosine_qgrams", "jaccard_similarity"}

\* C1: whenever the length gate returns true for the pair, score_y_clase
\* returns exactly (0.0, 0, []) and neither a metric nor
\* conflicting_characters has been evaluated in the request.
C1_CortePorLongitud ==
    (Devuelto /\ GateDisparo) =>
        /\ ret.x = FZero
        /\ ret.clase = 0
        /\ ret.lista = <<>>
        /\ evaluadas \cap (Metricas \cup {"conflicting_characters"}) = {}

\* a request on two names whose soft forms the gate rejects has returned
C1_Witness ==
    /\ Devuelto /\ GateDisparo
    /\ IsStr(args[1]) /\ IsStr(args[2])
    /\ a_std.s # <<>> /\ b_std.s # <<>>

C2_Mismo ==
    \/ (FGe(jw, FInt(93)) /\ FGe(ts, FInt(93)))
    \/ (FGe(ts, FInt(95)) /\ FGe(cq, FInt(92)))
    \/ (FGe(jw, FInt(90)) /\ FGe(jac, FInt(75)))

C2_Distinto == FLt(jw, FInt(85)) /\ FLt(ts, FInt(85))

\* C2: when the gate has not fired, the verdict is one of SAME (1),
\* DIFFERENT (0), INDETERMINATE (2): SAME iff (jw >= 93 and ts >= 93) or
\* (ts >= 95 and cq >= 92) or (jw >= 90 and jac >= 75); otherwise DIFFERENT
\* iff jw < 85 and ts < 85; otherwise INDETERMINATE; and it is the verdict
\* returned.
C2_Veredicto ==
    /\ (pc \in {"conflictos", "done"} /\ Metricas \subseteq evaluadas) =>
          /\ clase \in {0, 1, 2}
          /\ (clase = 1) <=> C2_Mismo
          /\ (clase = 0) <=> (~C2_Mismo /\ C2_Distinto)
          /\ (clase = 2) <=> (~C2_Mismo /\ ~C2_Distinto)
    /\ (Devuelto /\ Metricas \subseteq evaluadas) => ret.clase = clase

\* a pair returned as SAME by the third rule alone, at its boundary jw = 90
C2_Witness ==
    /\ Devuelto
    /\ ret.clase = 1
    /\ jw = FInt(90) /\ ts = FInt(84)
    /\ FGe(jac, FInt(75))

\* C3: the conflict list is non-empty only for a SAME verdict: for DIFFERENT
\* and INDETERMINATE (gate rejections included) it is empty and
\* conflicting_characters has not run; for SAME with a == b it is empty.
C3_ConflictosSoloMismo ==
    Devuelto =>
        /\ ret.clase # 1 => (ret.lista = <<>> /\ "conflicting_characters" \notin evaluadas)
        /\ (ret.clase = 1 /\ a = b) => ret.lista = <<>>

\* an undetermined pair of different names has returned, with no conflicts
C3_Witness ==
    /\ Devuelto
    /\ ret.clase = 2
    /\ a # b /\ a.s # <<>> /\ b.s # <<>>
    /\ ret.lista = <<>>

\* C4: for every request that passes the gate the returned score is
\* 0.4*jw + 0.4*ts + 0.2*cq, whatever the verdict and the Jaccard value.
C4_Score ==
    (Devuelto /\ ~GateDisparo) =>
        ret.x = FAdd(FAdd(FMul(Peso04, jw), FMul(Peso04, ts)), FMul(Peso02, cq))

\* a request past the gate has returned a score, with Jaccard and cosine
\* values that differ
C4_Witness ==
    /\ Devuelto /\ ~GateDisparo
    /\ jac # cq
    /\ FGt(jac, FZero)
    /\ ret.x # FZero

\* C5: jaccard_similarity and cosine_qgrams (with a q >= 1) return a value in
\* [0, 100], and so does score_y_clase given jw and ts in [0, 100].
C5_EnRango ==
    (/\ pc = "done"
     /\ ret.exc = ""
     /\ \/ ret.fn \in {"jaccard_similarity", "score_y_clase"}
        \/ (ret.fn = "cosine_qgrams" /\ ret.q >= 1)) =>
        FGe(ret.x, FZero) /\ FLe(ret.x, FInt(100))

\* the maximal runs of non-blank characters of s, as a set
TokensDe(s) ==
    {SubSeq(s, i, j) : <<i, j>> \in
        {p \in (1..Len(s)) \X (1..Len(s)) :
            /\ p[1] <= p[2]
            /\ \A k \in p[1]..p[2] : s[k] \notin Blanco
            /\ (p[1] = 1 \/ s[p[1] - 1] \in Blanco)
            /\ (p[2] = Len(s) \/ s[p[2] + 1] \in Blanco)}}

\* C11: jaccard_similarity is 100 * |A n B| / |A u B| for A, B the sets of
\* non-empty whitespace-delimited tokens of a_std and b_std (duplicates and
\* order of tokens do not matter), and 0.0 when both sets are empty.
C11_Jaccard ==
    (pc = "done" /\ ret.fn = "jaccard_similarity") =>
        IF TokensDe(a_std.s) \cup TokensDe(b_std.s) = {}
        THEN ret.x = FZero
        ELSE ret.x = FDiv(FInt(100 * Cardinality(TokensDe(a_std.s) \cap TokensDe(b_std.s))),
                          FInt(Cardinality(TokensDe(a_std.s) \cup TokensDe(b_std.s))))

\* jaccard_similarity has returned 100 for a soft form that repeats the one
\* token of the other
C11_Witness ==
    /\ pc = "done" /\ ret.fn = "jaccard_similarity"
    /\ a_std.s = <<"G","R","U","P","O"," ","G","R","U","P","O">>
    /\ b_std.s = <<"G","R","U","P","O">>
    /\ ret.x = FInt(100)

\* the request is a score_y_clase call past its first step
EnScore == pc \in {"metricas", "reglas", "conflictos", "raised"} \/ ret.fn = "score_y_clase"

\* the order of the steps of a match request, as far as it has come:
\* the soft forms exist before the gate is checked, the metrics are computed
\* only past the gate, the verdict only after the four metrics, and the
\* conflicts only for a SAME verdict
EnOrden ==
    EnScore =>
        /\ IsStr(a_std) /\ IsStr(b_std)
        /\ "length_prefilter" \in evaluadas
        /\ evaluadas \cap Metricas # {} => ~GateDisparo
        /\ pc = "metricas" => evaluadas = {"length_prefilter"}
        /\ clase # -1 => Metricas \subseteq evaluadas
        /\ pc = "conflictos" => clase \in {0, 1, 2}
        /\ "conflicting_characters" \in evaluadas => (clase = 1 /\ pc = "done")

\* C15: every match request follows Init -> Normalize(soft) -> GateCheck ->
\* {Reject -> Done | Proceed -> ComputeMetrics -> Classify -> {Same -> Diff ->
\* Done | NotSame -> Done}} and no other path: the request is in no state
\* outside that path (a request that stops, stops in Done) and its steps
\* come in that order.
C15_Camino ==
    /\ pc \in {"idle", "metricas", "reglas", "conflictos", "done"}
    /\ EnOrden

\* the same for the requests whose two sides are strings or None (which
\* __init__ turns into ""): these stay on the path
C15_CaminoDeTextos == (IsStr(a) /\ IsStr(b)) => C15_Camino

\* C18: no metric and no gate computation divides by zero or gives an
\* undefined value: cosine_qgrams returns 0.0 when a q-gram profile is empty
\* (string empty or shorter than q), jaccard_similarity returns 0.0 when
\* both token sets are empty, and length_prefilter returns (False) without
\* dividing when the longer length is 0.
C18_SinDivisionPorCero ==
    /\ ret.exc # "ZeroDivisionError"
    /\ Indefinido \notin {ret.x, cq, jac, score}
    /\ (/\ ret.fn = "cosine_qgrams"
        /\ \/ a_std.s = <<>>
           \/ b_std.s = <<>>
           \/ (ret.q >= 1 /\ (Len(a_std.s) < ret.q \/ Len(b_std.s) < ret.q)))
          => (ret.exc = "" /\ ret.x = FZero)
    /\ (ret.fn = "jaccard_similarity" /\ TokensDe(a_std.s) \cup TokensDe(b_std.s) = {})
          => (ret.exc = "" /\ ret.x = FZero)
    /\ (ret.fn = "length_prefilter" /\ a_std.s = <<>> /\ b_std.s = <<>>)
          => (ret.exc = "" /\ ret.v = FALSE)

\* cosine_qgrams(q=4) has returned 0.0 for "RIO", shorter than q, against
\* "GRUPO"
C18_Witness ==
    /\ pc = "done" /\ ret.fn = "cosine_qgrams" /\ ret.q = 4
    /\ a_std = Str(<<"R","I","O">>)
    /\ b_std = Str(<<"G","R","U","P","O">>)
    /\ ret.exc = "" /\ ret.x = FZero

\* C8: a None or non-string side is not an error: no call of the request
\* raises, and score_y_clase returns a result.
C8_SinExcepcion == pc # "raised" /\ ret.exc = ""

\* C9: cosine_qgrams called with q <= 0 is rejected: it raises and returns
\* no similarity value.
C9_QRechazado == (ret.fn = "cosine_qgrams" /\ ret.q <= 0) => ret.exc # ""

----------------------------------------------------------------------------
(* Specification SpecCache: one MetodoLexico object and a sequence of calls *)
(* of its methods, in any order                                             *)

\* number of calls made on one object
MaxLlamadas == 2

\* the arguments the object is built with
EntradasCache ==
    {Str(<<"R","I","O">>), Str(<<"G","R","U","P","O"," ","S","A">>), NoneV, IntV(7)}

\* MetodoLexico.__init__, lines 11-15
CacheInit ==
    /\ args \in EntradasCache \X EntradasCache
    /\ a = OrEmpty(args[1])
    /\ b = OrEmpty(args[2])
    /\ a_std = NoneV
    /\ b_std = NoneV
    /\ pc = "idle"
    /\ jw = FZero /\ ts = FZero /\ cq = FZero /\ jac = FZero
    /\ clase = -1
    /\ score = FZero
    /\ ret = SinRet
    /\ evaluadas = {}
    /\ normalizaciones = 0
    /\ llamadas = 0
    /\ NormIdle
    /\ GateIdle
    /\ ColIdle
    /\ DiffIdle

\* the previous call has returned or raised and the user calls a method of
\* the same object again: the locals of the call are new, the attributes
\* a, b, a_std, b_std of the object stay
OtraLlamada ==
    /\ pc \in {"done", "raised"}
    /\ llamadas + 1 < MaxLlamadas
    /\ llamadas' = llamadas + 1
    /\ pc' = "idle"
    /\ jw' = FZero /\ ts' = FZero /\ cq' = FZero /\ jac' = FZero
    /\ clase' = -1
    /\ score' = FZero
    /\ ret' = SinRet
    /\ evaluadas' = {}
    /\ UNCHANGED <<args, a, b, a_std, b_std, normalizaciones, nvars, gvars, cvars, dvars>>

CacheNext ==
    \/ Next
    \/ OtraLlamada

SpecCache == CacheInit /\ [][CacheNext]_vars

\* C16: the soft forms are computed on first use and cached: over the calls
\* made on one object, in any order, normalization_and_soft_standardization
\* runs exactly once, in the first step of the first call; from then on
\* a_std and b_std are strings, never None, and they are the soft forms of
\* a and b computed then, whatever step or call comes later.
C16_Cache ==
    /\ normalizaciones \in {0, 1}
    /\ normalizaciones = 0 <=> (pc = "idle" /\ llamadas = 0)
    /\ normalizaciones = 0 <=> SinEstandarizar
    /\ normalizaciones = 1 =>
          /\ IsStr(a_std) /\ IsStr(b_std)
          /\ a_std = OrEmpty(EstandarizarTexto(a, Suave))
          /\ b_std = OrEmpty(EstandarizarTexto(b, Suave))

\* a second call on the object, score_y_clase run to its SAME verdict, has
\* used the forms the first call computed
C16_Witness ==
    /\ llamadas = 1
    /\ pc = "done" /\ ret.fn = "score_y_clase" /\ ret.clase = 1
    /\ normalizaciones = 1
    /\ a_std = Str(<<"G","R","U","P","O">>)

----------------------------------------------------------------------------
(* Specification SpecNorm: one standardisation request, then the caller     *)
(* passing each result back in with the same configuration                  *)

\* longest text passed to a standardisation request, in characters
MaxLen == 3
\* how many times the text goes through _estandarizar_texto
MaxPasadas == 2

NormChars == {"S", "A", "a-acute", " ", ".", "&", "O-slash"}

NormInputs == {Str(s) : s \in SeqsUpTo(NormChars, MaxLen)} \cup {NoneV, IntV(7)}

NormInit ==
    /\ entrada \in NormInputs
    /\ texto = entrada
    /\ cfg \in Config
    /\ pasadas = <<>>
    /\ ObjIdle
    /\ GateIdle
    /\ ColIdle
    /\ DiffIdle

\* one call _estandarizar_texto(texto, **cfg); the result is what the next
\* call receives
Estandarizar ==
    /\ Len(pasadas) < MaxPasadas
    /\ pasadas' = Append(pasadas, EstandarizarTexto(texto, cfg))
    /\ texto' = EstandarizarTexto(texto, cfg)
    /\ UNCHANGED <<cfg, entrada, ovars, gvars, cvars, dvars>>

NormNext == Estandarizar

SpecNorm == NormInit /\ [][NormNext]_vars

----------------------------------------------------------------------------
(* Properties of specification SpecNorm *)

\* what pass k received
Recibido(k) == IF k = 1 THEN entrada ELSE pasadas[k - 1]

\* C6: normalization is idempotent for every string and every configuration
\* of the four toggles: the second pass returns what the first returned.
C6_Idempotente ==
    (IsStr(entrada) /\ Len(pasadas) >= 2) => pasadas[2] = pasadas[1]

\* s with every slashed O written as a plain "O"
ConOPlana(s) == [i \in 1..Len(s) |-> IF s[i] \in {"O-slash", "o-slash"} THEN "O" ELSE s[i]]

\* C12: for every configuration, normalization turns each slashed O of the
\* input into a plain "O": the result is the result for the same text
\* written with plain "O"s.
C12_OBarrada ==
    (IsStr(entrada) /\ Len(pasadas) >= 1) =>
        pasadas[1] = EstandarizarTexto(Str(ConOPlana(entrada.s)), cfg)

\* the tokens of the text as line 61 splits them, before any filter
PreFiltro(s) ==
    Split(Mayusculas(QuitarEspaciosExtra(QuitarPuntuacion(Sustituir(QuitarAcentos(s))))))

\* the token passes every filter whose toggle is set
Queda(t, c) ==
    /\ c.sin_terminos_mercantiles => t \notin MERCANTILES_O_INST
    /\ c.sin_stopword => t \notin STOPWORDS
    /\ c.quitar_tokens_1_letra => Len(t) > 1

\* C17: the token filters (institutional terms, then stopwords, then
\* single-letter tokens) apply each only when its toggle is set and keep the
\* surviving tokens in their original order; with sin_espacios off the
\* output has no institutional term, no stopword and no one-character token
\* when the respective toggle is on.
C17_Filtros ==
    \A k \in 1..Len(pasadas) :
        (IsStr(Recibido(k)) /\ ~cfg.sin_espacios) =>
            /\ IsStr(pasadas[k])
            /\ Split(pasadas[k].s) = SelectSeq(PreFiltro(Recibido(k).s), LAMBDA t : Queda(t, cfg))
            /\ \A i \in 1..Len(Split(pasadas[k].s)) : Queda(Split(pasadas[k].s)[i], cfg)

\* "SA&" under the three filters: SA is an institutional term, the Y that
\* "&" becomes is a stopword, and nothing is left
C17_Witness ==
    /\ entrada = Str(<<"S", "A", "&">>)
    /\ cfg = Suave
    /\ Len(pasadas) >= 1
    /\ PreFiltro(entrada.s) = << <<"S", "A">>, <<"Y">> >>
    /\ pasadas[1] = Str(<<>>)

\* the characters that are not ASCII
NoAscii == {"a-acute", "A-acute", "e-acute", "N-tilde", "O-slash", "o-slash"}

\* o is clean: no stripped punctuation and no "&", upper-case ASCII, single
\* spaces between its tokens and none at its ends
Limpio(o) ==
    /\ \A i \in 1..Len(o) : o[i] \notin Puntuacion \cup {"&"} \cup NoAscii \cup DOMAIN MAYUS
    /\ \A i \in 1..Len(o) : o[i] \in Blanco => o[i] = " "
    /\ o # <<>> => (o[1] # " " /\ o[Len(o)] # " ")
    /\ \A i \in 1..(Len(o) - 1) : ~(o[i] = " " /\ o[i + 1] = " ")

\* C23: with sin_espacios off, normalization is idempotent for every string
\* and every combination of the three token filters: the output has no
\* stripped punctuation and no "&", no leading, trailing or repeated
\* whitespace, is upper-case ASCII, each of its tokens passes the filters,
\* and normalizing it again returns it unchanged.
C23_IdempotenteConEspacios ==
    \A k \in 1..Len(pasadas) :
        (IsStr(Recibido(k)) /\ ~cfg.sin_espacios) =>
            /\ IsStr(pasadas[k])
            /\ Limpio(pasadas[k].s)
            /\ \A t \in TokensDe(pasadas[k].s) : Queda(t, cfg)
            /\ k >= 2 => pasadas[k] = pasadas[k - 1]

\* an accented lower-case "a", a dot and "S" with only the institutional
\* filter on: "A S" after the first pass and after the second
C23_Witness ==
    /\ entrada = Str(<<"a-acute", ".", "S">>)
    /\ cfg = [sin_espacios |-> FALSE, sin_stopword |-> FALSE,
              sin_terminos_mercantiles |-> TRUE, quitar_tokens_1_letra |-> FALSE]
    /\ Len(pasadas) >= 2
    /\ pasadas[1] = Str(<<"A", " ", "S">>)
    /\ pasadas[2] = pasadas[1]

\* C7: for every configuration, None and every value that is no string give
\* None; every string gives a string, never None.
C7_NoneONoTexto ==
    \A k \in 1..Len(pasadas) :
        /\ ~IsStr(Recibido(k)) => pasadas[k] = NoneV
        /\ IsStr(Recibido(k)) => IsStr(pasadas[k])

\* a value that is no string, with every toggle on, has come back as None
C7_Witness ==
    /\ Len(pasadas) >= 1
    /\ entrada = IntV(7)
    /\ cfg.sin_espacios /\ cfg.sin_stopword
    /\ pasadas[1] = NoneV

----------------------------------------------------------------------------
(* Specification SpecGate: the length prefilter on two given lengths *)

\* longest standardised form the prefilter is evaluated on
MaxGateLen == 30

GateInit ==
    /\ lens \in (0..MaxGateLen) \X (0..MaxGateLen)
    /\ gate = "unset"
    /\ ObjIdle
    /\ NormIdle
    /\ ColIdle
    /\ DiffIdle

\* length_prefilter on forms of lengths lens
EvalGate ==
    /\ gate = "unset"
    /\ gate' = IF LengthPrefilterLens(lens[1], lens[2]) THEN "True" ELSE "False"
    /\ UNCHANGED <<lens, ovars, nvars, cvars, dvars>>

GateNext == EvalGate

SpecGate == GateInit /\ [][GateNext]_vars

----------------------------------------------------------------------------
(* Properties of specification SpecGate *)

\* C10: with lmax = max(len_a, len_b), length_prefilter returns false when
\* lmax <= 3, and otherwise true iff |len_a - len_b| > max(5, round(0.20*lmax))
\* and |len_a - len_b| / lmax > (0.40 if lmax < 10 else 0.50).  The right-hand
\* side is in exact integer arithmetic: lmax/5 is never halfway between two
\* integers, so its rounding is (2*lmax + 5) \div 10.
C10_Prefiltro ==
    gate # "unset" =>
        LET lmax == IF lens[1] >= lens[2] THEN lens[1] ELSE lens[2]
            gap  == IF lens[1] >= lens[2] THEN lens[1] - lens[2] ELSE lens[2] - lens[1]
            r20  == (2 * lmax + 5) \div 10
            thr  == IF r20 > 5 THEN r20 ELSE 5
        IN  (gate = "True") <=>
                /\ lmax > 3
                /\ gap > thr
                /\ IF lmax < 10 THEN 10 * gap > 4 * lmax ELSE 10 * gap > 5 * lmax

\* the gate has rejected a short form against a long one
C10_Witness == gate = "True" /\ lens = <<4, 12>>

----------------------------------------------------------------------------
(* Specification SpecCol: one request on a column of the data frame,        *)
(* ManipulateData.py lines 81-100 and 131-160.  columna is the column as    *)
(* the request finds it; salida is what the request returns (for            *)
(* estandarizar_titular: the column of the data frame it leaves behind).    *)

\* most rows of a column
MaxFilas == 3

\* the values a row may hold
ColValores ==
    { NoneV, Str(<<>>), Str(<<"R","I","O">>), Str(<<"r","i","o">>), Str(<<"S","A">>) }

ColInit ==
    /\ columna \in SeqsUpTo(ColValores, MaxFilas)
    /\ cfn = ""
    /\ salida = <<>>
    /\ cfg \in Config
    /\ texto = NoneV /\ entrada = NoneV /\ pasadas = <<>>
    /\ ObjIdle
    /\ GateIdle
    /\ DiffIdle

\* pl.col(c).map_elements(f, return_dtype=pl.Utf8): f on every row that is
\* not null, in place; a null row stays null
MapElements(f(_), col) == [i \in 1..Len(col) |-> IF col[i] = NoneV THEN NoneV ELSE f(col[i])]

\* the orders in which .unique().to_series().to_list() may list the distinct
\* values of the column (the library fixes none)
Unique(col) ==
    {f \in [1..Cardinality(Range(col)) -> Range(col)] :
        \A i, j \in DOMAIN f : i # j => f[i] # f[j]}

RECURSIVE NoVacios(_, _)
\* lines 147-158: the loop over valores_unicos
NoVacios(valores, c) ==
    IF valores = <<>> THEN <<>>
    ELSE (IF Head(valores) # NoneV /\ Truthy(EstandarizarTexto(Head(valores), c))
          THEN <<EstandarizarTexto(Head(valores), c)>> ELSE <<>>)
         \o NoVacios(Tail(valores), c)

\* estandarizar_titular with "or None" after the call of line 90: a row whose
\* standard form is empty becomes null.  C13_Titular tells this variant from
\* the code.
EstandarizarTitularVacioNulo ==
    /\ cfn = ""
    /\ cfn' = "estandarizar_titular"
    /\ salida' = MapElements(LAMBDA x : IF Truthy(EstandarizarTexto(x, cfg))
                                        THEN EstandarizarTexto(x, cfg) ELSE NoneV,
                             columna)
    /\ UNCHANGED <<columna, ovars, nvars, gvars, dvars>>

\* estandarizar_titular(columna, **cfg), lines 88-100
EstandarizarTitular ==
    /\ cfn = ""
    /\ cfn' = "estandarizar_titular"
    /\ salida' = MapElements(LAMBDA x : EstandarizarTexto(x, cfg), columna)
    /\ UNCHANGED <<columna, ovars, nvars, gvars, dvars>>

\* estandarizar_cadenas(columna, **cfg), lines 144-160
EstandarizarCadenas ==
    /\ cfn = ""
    /\ cfn' = "estandarizar_cadenas"
    /\ \E valores_unicos \in Unique(columna) : salida' = NoVacios(valores_unicos, cfg)
    /\ UNCHANGED <<columna, ovars, nvars, gvars, dvars>>

ColNext ==
    \/ EstandarizarTitular
    \/ EstandarizarCadenas

SpecCol == ColInit /\ [][ColNext]_vars

\* C13: estandarizar_titular returns a column of the same length whose row i
\* is the normalization of row i of the input: the order of the rows is kept
\* and a row is null in the output iff it is null in the input.
C13_Titular ==
    cfn = "estandarizar_titular" =>
        /\ Len(salida) = Len(columna)
        /\ \A i \in 1..Len(columna) :
              /\ (salida[i] = NoneV) <=> (columna[i] = NoneV)
              /\ columna[i] # NoneV => salida[i] = EstandarizarTexto(columna[i], cfg)

\* a column with a null between two names, one of which normalizes to the
\* empty string, has been normalized
C13_Witness ==
    /\ cfn = "estandarizar_titular"
    /\ cfg.sin_terminos_mercantiles
    /\ columna = <<Str(<<"S","A">>), NoneV, Str(<<"r","i","o">>)>>
    /\ salida = <<Str(<<>>), NoneV, Str(<<"R","I","O">>)>>

\* C14: estandarizar_cadenas returns unique standardized strings: no value
\* appears more than once in the returned list.
C14_CadenasUnicas ==
    cfn = "estandarizar_cadenas" =>
        \A i, j \in 1..Len(salida) : i # j => salida[i] # salida[j]

----------------------------------------------------------------------------
(* Specification SpecDiff: one call of conflicting_characters, statement by *)
(* statement                                                                *)

\* longest string compared
MaxDiffLen == 4

DiffChars == {"A", "B"}

\* self.a, self.b
DiffInit ==
    /\ cadenas \in SeqsUpTo(DiffChars, MaxDiffLen) \X SeqsUpTo(DiffChars, MaxDiffLen)
    /\ dpc = "inicio"
    /\ opcodes = <<>>
    /\ pares = <<>>
    /\ unicos = <<>>
    /\ ObjIdle
    /\ NormIdle
    /\ GateIdle
    /\ ColIdle

\* lines 185-186: the matcher and its opcodes
CalcularOpcodes ==
    /\ dpc = "inicio"
    /\ opcodes' = GetOpcodes(cadenas[1], cadenas[2])
    /\ dpc' = "opcodes"
    /\ UNCHANGED <<cadenas, pares, unicos, ovars, nvars, gvars, cvars>>

\* lines 187-206: the loop over the opcodes
EmitirPares ==
    /\ dpc = "opcodes"
    /\ pares' = ParesDeTodos(cadenas[1], cadenas[2], opcodes)
    /\ dpc' = "pares"
    /\ UNCHANGED <<cadenas, opcodes, unicos, ovars, nvars, gvars, cvars>>

\* lines 208-213: the unique pairs, and the return
Deduplicar ==
    /\ dpc = "pares"
    /\ unicos' = Unicos(pares, {})
    /\ dpc' = "hecho"
    /\ UNCHANGED <<cadenas, opcodes, pares, ovars, nvars, gvars, cvars>>

DiffNext ==
    \/ CalcularOpcodes
    \/ EmitirPares
    \/ Deduplicar

SpecDiff == DiffInit /\ [][DiffNext]_vars

----------------------------------------------------------------------------
(* Properties of specification SpecDiff *)

\* what the claim has one opcode emit: position k of the two substrings side
\* by side, the shorter one padded with the absent marker; nothing for equal
EmiteOpcode(op) ==
    IF op[1] = "equal" THEN <<>>
    ELSE [k \in 1..Max2(op[3] - op[2], op[5] - op[4]) |->
            << IF k <= op[3] - op[2] THEN cadenas[1][op[2] + k] ELSE Ausente,
               IF k <= op[5] - op[4] THEN cadenas[2][op[4] + k] ELSE Ausente >>]

RECURSIVE EmiteOpcodes(_)
EmiteOpcodes(ops) ==
    IF ops = <<>> THEN <<>> ELSE EmiteOpcode(Head(ops)) \o EmiteOpcodes(Tail(ops))

\* C19: before deduplication the list holds, opcode by opcode of the edit
\* script: for a replace of a_sub by b_sub the min(len) substitutions
\* (a_sub[k], b_sub[k]), then (ch, absent) for the excess of a_sub and
\* (absent, ch) for the excess of b_sub; for a delete (ch, absent) per
\* character; for an insert (absent, ch) per character; nothing for equal.
C19_ParesPorOpcode ==
    dpc \in {"pares", "hecho"} =>
        /\ \A i \in 1..Len(opcodes) :
              /\ opcodes[i][1] \in {"equal", "replace", "delete", "insert"}
              /\ opcodes[i][1] = "replace" => (opcodes[i][2] < opcodes[i][3] /\ opcodes[i][4] < opcodes[i][5])
              /\ opcodes[i][1] = "delete" => (opcodes[i][2] < opcodes[i][3] /\ opcodes[i][4] = opcodes[i][5])
              /\ opcodes[i][1] = "insert" => (opcodes[i][2] = opcodes[i][3] /\ opcodes[i][4] < opcodes[i][5])
        /\ pares = EmiteOpcodes(opcodes)

\* "AA" against "B": one replace, one substitution and one excess character
\* of a
C19_Witness ==
    /\ dpc = "hecho"
    /\ cadenas = << <<"A", "A">>, <<"B">> >>
    /\ opcodes = << <<"replace", 0, 2, 0, 1>> >>
    /\ pares = << <<"A", "B">>, <<"A", Ausente>> >>

\* where p first occurs in the list l
Primera(l, p) == CHOOSE i \in 1..Len(l) : l[i] = p /\ \A j \in 1..(i - 1) : l[j] # p

\* C20: the returned list has no duplicate pair, holds exactly the distinct
\* pairs of the emitted list, and orders them by their first occurrence
\* there.
C20_SinDuplicados ==
    dpc = "hecho" =>
        /\ \A i, j \in 1..Len(unicos) : unicos[i] = unicos[j] => i = j
        /\ Range(unicos) = Range(pares)
        /\ \A i, j \in 1..Len(unicos) :
              i < j => Primera(pares, unicos[i]) < Primera(pares, unicos[j])

\* "ABA" against "": three deletions, the first and the third the same pair
C20_Witness ==
    /\ dpc = "hecho"
    /\ cadenas = << <<"A", "B", "A">>, <<>> >>
    /\ pares = << <<"A", Ausente>>, <<"B", Ausente>>, <<"A", Ausente>> >>
    /\ unicos = << <<"A", Ausente>>, <<"B", Ausente>> >>

----------------------------------------------------------------------------
(* Specification SpecReglas: the rules of score_y_clase on four given       *)
(* metric values                                                            *)

\* the values of jw and ts: the thresholds of the rules, their neighbours
\* and the ends of the range
ReglaJT == {0, 74, 75, 76, 84, 85, 86, 89, 90, 91, 92, 93, 94, 95, 96, 100}
\* the values of cq and of jac
ReglaCQ == {0, 91, 92, 93, 100}
ReglaJac == {0, 74, 75, 76, 100}

\* score_y_clase after line 148, with the four metrics in hand
ReglasInit ==
    /\ \E j \in ReglaJT, t \in ReglaJT, c \in ReglaCQ, x \in ReglaJac :
          /\ jw = FInt(j) /\ ts = FInt(t) /\ cq = FInt(c) /\ jac = FInt(x)
    /\ pc = "reglas"
    /\ args = <<NoneV, NoneV>>
    /\ a = Str(<<>>) /\ b = Str(<<>>)
    /\ a_std = Str(<<>>) /\ b_std = Str(<<>>)
    /\ clase = -1
    /\ score = FZero
    /\ ret = SinRet
    /\ evaluadas = {"length_prefilter", "jaro_winkler_distance", "token_set_ratio",
                    "cosine_qgrams", "jaccard_similarity"}
    /\ normalizaciones = 1
    /\ llamadas = 0
    /\ NormIdle
    /\ GateIdle
    /\ ColIdle
    /\ DiffIdle

ReglasNext ==
    \/ ScoreReglas
    \/ ScoreConflictos

SpecReglas == ReglasInit /\ [][ReglasNext]_vars

----------------------------------------------------------------------------
(* Properties of specification SpecReglas *)

\* C21: the SAME and the DIFFERENT rule are mutually exclusive: no jw, ts,
\* cq, jac in [0, 100] satisfy both, so the verdict is the same when the
\* DIFFERENT rule is tested first.
C21_Excluyentes ==
    /\ ~(EsMismo(jw, ts, cq, jac) /\ EsDistinto(jw, ts))
    /\ pc \in {"conflictos", "done"} =>
          clase = (IF EsDistinto(jw, ts) THEN 0
                   ELSE IF EsMismo(jw, ts, cq, jac) THEN 1
                   ELSE 2)

\* SAME by the third rule alone with ts under 85: the nearest the two rules
\* come to each other
C21_Witness ==
    /\ pc = "done"
    /\ jw = FInt(90) /\ ts = FInt(84) /\ jac = FInt(75) /\ cq = FInt(0)
    /\ clase = 1 /\ ret.clase = 1

----------------------------------------------------------------------------
(* Specification SpecVacio: requests on a pair one side of which has an     *)
(* empty soft form                                                          *)

\* inputs whose soft form is "": None, "", and names made of removed tokens
Vacias == {NoneV, Str(<<>>), Str(<<"S","A">>), Str(<<"S",".","A","."," ","D","E"," ","C",".","V",".">>)}

\* names whose soft form is the name itself, of lengths 3 to 8
Llenas == {Str(<<"R","I","O">>), Str(<<"L","A","G","O">>), Str(<<"G","R","U","P","O">>), Str(<<"P","R","E","S","A","S">>), Str(<<"R","I","O"," ","R","I","O">>), Str(<<"R","I","O"," ","L","A","G","O">>)}

\* MetodoLexico.__init__, lines 11-15
VacioInit ==
    /\ args \in (Vacias \X Llenas) \cup (Llenas \X Vacias)
    /\ a = OrEmpty(args[1])
    /\ b = OrEmpty(args[2])
    /\ a_std = NoneV
    /\ b_std = NoneV
    /\ pc = "idle"
    /\ jw = FZero /\ ts = FZero /\ cq = FZero /\ jac = FZero
    /\ clase = -1
    /\ score = FZero
    /\ ret = SinRet
    /\ evaluadas = {}
    /\ normalizaciones = 0
    /\ llamadas = 0
    /\ NormIdle
    /\ GateIdle
    /\ ColIdle
    /\ DiffIdle

SpecVacio == VacioInit /\ [][Next]_vars

----------------------------------------------------------------------------
(* Properties of specification SpecVacio *)

\* the length of the longer soft form
LargoMayor == Max2(Len(a_std.s), Len(b_std.s))

\* exactly one of the soft forms is empty
UnaVacia ==
    /\ IsStr(a_std) /\ IsStr(b_std)
    /\ (a_std.s = <<>>) # (b_std.s = <<>>)

\* C22: when exactly one soft form is empty (input None, empty or made of
\* removed tokens) and the other has length at least 6, the length gate
\* fires and score_y_clase returns (0.0, DIFFERENT, []) without computing a
\* metric; when the other has length at most 5 the gate does not fire and
\* the metrics are computed.
C22_UnaVacia ==
    UnaVacia =>
        /\ ret.fn = "length_prefilter" => (ret.v <=> LargoMayor >= 6)
        /\ (EnScore /\ LargoMayor >= 6) =>
              /\ Devuelto
              /\ ret.x = FZero /\ ret.clase = 0 /\ ret.lista = <<>>
              /\ evaluadas = {"length_prefilter"}
        /\ (EnScore /\ LargoMayor <= 5) =>
              /\ pc # "raised"
              /\ pc # "metricas" => Metricas \subseteq evaluadas

\* "S.A. DE C.V." against "PRESAS": the first has the soft form "", the
\* second has 6 characters, and the request has returned at the gate
C22_Witness ==
    /\ args = <<Str(<<"S",".","A","."," ","D","E"," ","C",".","V",".">>), Str(<<"P","R","E","S","A","S">>)>>
    /\ Devuelto
    /\ a_std = Str(<<>>) /\ b_std = Str(<<"P","R","E","S","A","S">>)
    /\ ret.clase = 0 /\ evaluadas = {"length_prefilter"}

\* C24: for originals without the absent marker, every pair (from, to) of
\* the returned list has from # to: a substitution never pairs a character
\* with itself, and no pair has the marker on both sides.
C24_ParesDistintos ==
    (/\ dpc = "hecho"
     /\ \A i \in 1..Len(cadenas[1]) : cadenas[1][i] # Ausente
     /\ \A i \in 1..Len(cadenas[2]) : cadenas[2][i] # Ausente) =>
        \A i \in 1..Len(unicos) :
            /\ unicos[i][1] # unicos[i][2]
            /\ ~(unicos[i][1] = Ausente /\ unicos[i][2] = Ausente)

\* "AA" against "B": the returned list has a substitution and a pair with
\* the marker
C24_Witness ==
    /\ dpc = "hecho"
    /\ cadenas = << <<"A", "A">>, <<"B">> >>
    /\ unicos = << <<"A", "B">>, <<"A", Ausente>> >>

----------------------------------------------------------------------------
(* The two library metrics on the original strings, MetodoLexico.py lines   *)
(* 112-118, as their definitions give them.  The values are the correctly   *)
(* rounded floats of the exact quotients; a library may be a few units in   *)
(* the last place off, far less than the distance of the values below to a  *)
(* threshold of the rules.                                                  *)

\* Jaro: two equal characters match when their positions are at most this
\* far apart
JaroRango(sa, sb) == Max2(0, (Max2(Len(sa), Len(sb)) \div 2) - 1)

RECURSIVE JaroEmpareja(_, _, _, _)
\* the matches <<i, j>> of sa[i] with the first free equal sb[j] in range,
\* for i from i0 on; usados are the positions of sb taken already
JaroEmpareja(sa, sb, i0, usados) ==
    IF i0 > Len(sa) THEN <<>>
    ELSE LET cands == {j \in Max2(1, i0 - JaroRango(sa, sb))..Min2(Len(sb), i0 + JaroRango(sa, sb)) :
                          j \notin usados /\ sb[j] = sa[i0]}
         IN  IF cands = {} THEN JaroEmpareja(sa, sb, i0 + 1, usados)
             ELSE LET j == CHOOSE j \in cands : \A o \in cands : j <= o
                  IN  <<<<i0, j>>>> \o JaroEmpareja(sa, sb, i0 + 1, usados \cup {j})

\* half the number of matched characters that are out of order
JaroTransposiciones(sa, sb, ms) ==
    LET enA == [k \in 1..Len(ms) |-> sa[ms[k][1]]]
        js  == {ms[k][2] : k \in 1..Len(ms)}
        enB == SelectSeq([j \in 1..Len(sb) |-> IF j \in js THEN sb[j] ELSE "-"],
                         LAMBDA ch : ch # "-")
    IN  Cardinality({k \in 1..Len(ms) : enA[k] # enB[k]}) \div 2

RECURSIVE PrefijoComun(_, _)
PrefijoComun(sa, sb) ==
    IF sa = <<>> \/ sb = <<>> \/ Head(sa) # Head(sb) THEN 0
    ELSE 1 + PrefijoComun(Tail(sa), Tail(sb))

\* the Jaro similarity as the fraction <<numerator, denominator>>:
\* (m/|sa| + m/|sb| + (m - t)/m) / 3, and 0 without a match
JaroFraccion(sa, sb, m, t) ==
    IF m = 0 THEN <<0, 1>>
    ELSE <<m * m * Len(sb) + m * m * Len(sa) + (m - t) * Len(sa) * Len(sb),
           3 * Len(sa) * Len(sb) * m>>

\* Jaro-Winkler in percent from the Jaro fraction jf and the common prefix p
\* (at most 4): jaro + 0.1 * p * (1 - jaro) when jaro > 0.7, else jaro
JaroWinklerDe(jf, p) ==
    IF 10 * jf[1] > 7 * jf[2]
    THEN FDiv(FInt(100 * (10 * jf[1] + p * (jf[2] - jf[1]))), FInt(10 * jf[2]))
    ELSE FDiv(FInt(100 * jf[1]), FInt(jf[2]))

\* jellyfish.jaro_winkler_similarity(sa, sb) * 100.0, line 114
JaroWinkler(sa, sb) ==
    IF sa = <<>> \/ sb = <<>> THEN FZero
    ELSE JaroWinklerDe(JaroFraccion(sa, sb, Len(JaroEmpareja(sa, sb, 1, {})),
                                    JaroTransposiciones(sa, sb, JaroEmpareja(sa, sb, 1, {}))),
                       Min2(4, PrefijoComun(sa, sb)))

RECURSIVE LCS(_, _)
\* length of the longest common subsequence
LCS(sa, sb) ==
    IF sa = <<>> \/ sb = <<>> THEN 0
    ELSE IF Head(sa) = Head(sb) THEN 1 + LCS(Tail(sa), Tail(sb))
    ELSE Max2(LCS(Tail(sa), sb), LCS(sa, Tail(sb)))

\* fuzz.token_set_ratio(sa, sb), line 118, on two names of one token each:
\* 100 for the same token, else the Indel ratio of the two tokens,
\* 100 * 2 * LCS / (|sa| + |sb|)
TokenSetRatioUnToken(sa, sb) ==
    IF sa = <<>> \/ sb = <<>> THEN FZero
    ELSE IF sa = sb THEN FInt(100)
    ELSE FDiv(FInt(200 * LCS(sa, sb)), FInt(Len(sa) + Len(sb)))

----------------------------------------------------------------------------
(* Specification SpecIguales: score_y_clase on names of one word, written   *)
(* with and without an accent                                               *)

NombresIguales ==
    { <<"P", "A", "Z">>, <<"P", "A-acute", "Z">>, <<"P", "a-acute", "Z">>,
      <<"M", "A", "R">>, <<"M", "A-acute", "R">>, <<"M", "a-acute", "R">> }

\* MetodoLexico.__init__, lines 11-15
IgualesInit ==
    /\ args \in {Str(n) : n \in NombresIguales} \X {Str(n) : n \in NombresIguales}
    /\ a = OrEmpty(args[1])
    /\ b = OrEmpty(args[2])
    /\ a_std = NoneV
    /\ b_std = NoneV
    /\ pc = "idle"
    /\ jw = FZero /\ ts = FZero /\ cq = FZero /\ jac = FZero
    /\ clase = -1
    /\ score = FZero
    /\ ret = SinRet
    /\ evaluadas = {}
    /\ normalizaciones = 0
    /\ llamadas = 0
    /\ NormIdle
    /\ GateIdle
    /\ ColIdle
    /\ DiffIdle

\* score_y_clase, lines 140-148, on two names: the four metrics, the two
\* library ones with the values their definitions give
ScoreMetricasTextos ==
    /\ pc = "metricas"
    /\ IsStr(a) /\ IsStr(b)
    /\ Asegurar
    /\ jw' = JaroWinkler(a.s, b.s)
    /\ ts' = TokenSetRatioUnToken(a.s, b.s)
    /\ cq' = CosineQgramsOf(AStd.s, BStd.s, 3)
    /\ jac' = Jaccard(AStd.s, BStd.s)
    /\ evaluadas' = evaluadas \cup
          {"jaro_winkler_distance", "token_set_ratio", "cosine_qgrams", "jaccard_similarity"}
    /\ pc' = "reglas"
    /\ UNCHANGED <<args, a, b, llamadas, clase, score, ret, nvars, gvars, cvars, dvars>>

IgualesNext ==
    \/ ScorePrefiltro
    \/ ScoreMetricasTextos
    \/ ScoreReglas
    \/ ScoreConflictos

SpecIguales == IgualesInit /\ [][IgualesNext]_vars

----------------------------------------------------------------------------
(* Properties of specification SpecIguales *)

====
